---------------------------- MODULE Spec2Model ----------------------------
(***************************************************************************)
(* Cycle-accurate model of SpiOpi (src/gateware/spinor.py): the MAC        *)
(* command sequencer, the SPI and OPI cycle managers (PHY) and the         *)
(* Wishbone master / CSR writes / device pins that drive them.             *)
(*                                                                         *)
(* One step of the model is one rising edge of the sys clock: every        *)
(* register takes the value its migen NextValue / sync statement gives it, *)
(* computed from the values all signals had during the cycle that ends.    *)
(* Signals keep the names of the source.  Bits are 0/1.                    *)
(***************************************************************************)
EXTENDS Integers, Sequences, FiniteSets, TLC

(***************************************************************************)
(* Bounds of the model (not program constants).                            *)
(***************************************************************************)
\* the bus master presents at most MaxBurst further words after a page base
MaxBurst == 1
\* software writes the values 0..MaxDummyWrite to the dummy-cycle register
MaxDummyWrite == 1

(***************************************************************************)
(* Program constants.                                                      *)
(***************************************************************************)
\* CSRField("dummy", size=5, reset=10)
DummyReset == 10
\* wishbone.Interface(): 30 address bits; rom_addr = Cat(Signal(2), bus.adr)
AdrWords == 1073741824
\* rom_addr = Signal(32, reset=0xFFFFFFFC): word part 0x3FFFFFFF, low bits 00
RomWordReset == 1073741823
\* mac_count, spicount and opicount are Signal(5)
CountMod == 32
\* the SPI PHY shifts 8 bits per byte: spicount is loaded with 7
SpiCountLoad == 7
\* OPI 8DTRD read command word 0xEE11
OpiReadCmd == 60945
\* rom_addr[16:] & 0x07FF
AdrHiMask == 2048
\* chip-select high time loaded into mac_count between wake-up commands
CsWait == 4

(***************************************************************************)
(* 32-bit values.  TLC integers are 32-bit signed, so the 32-bit rom_addr  *)
(* is kept as its word part rom_addr[2:] (30 bits) and its two low bits,   *)
(* and the 32-bit d_to_wb / dat_r as four bytes, least significant first.  *)
(***************************************************************************)
Rom(w, l) == [word |-> w, lo |-> l]

\* rom_addr + k, 32-bit wrap-around (k in 0..3)
RomAdd(r, k) ==
    LET s == r.lo + k
    IN  Rom((r.word + (s \div 4)) % AdrWords, s % 4)

\* rom_addr[16:] & 0x07FF
\* variant: the high half of the address goes out unmasked
RomHi_NoMask(r) == r.word \div 16384

RomHi(r) == (r.word \div 16384) % AdrHiMask

\* rom_addr[:16]
RomLo(r) == (r.word % 16384) * 4 + r.lo

\* rom_addr[24:] & 0x7, rom_addr[16:24], rom_addr[8:16], rom_addr[:8]
RomByte3(r) == (r.word \div 4194304) % 8
RomByte2(r) == (r.word \div 16384) % 256
RomByte1(r) == (r.word \div 64) % 256
RomByte0(r) == (r.word % 64) * 4 + r.lo

Word0 == <<0, 0, 0, 0>>

\* Cat(d_to_wb[16:], opi_di): the old upper half moves down, opi_di on top
ShiftIn16(d, di) == <<d[3], d[4], di % 256, di \div 256>>

\* Cat(d_to_wb[8:], spi_di)
ShiftIn8(d, di) == <<d[2], d[3], d[4], di>>

\* x - 1 in a Signal(5)
Dec5(x) == (x + CountMod - 1) % CountMod

(***************************************************************************)
(* Wishbone inputs of the MAC.                                             *)
(***************************************************************************)
BusIdle == [cyc |-> 0, stb |-> 0, we |-> 0, cti |-> 0, adr |-> 0]

\* (cyc == 1) & (stb == 1) & (we == 0) & (cti != 7)
ReadRequested(b) == b.cyc = 1 /\ b.stb = 1 /\ b.we = 0 /\ b.cti # 7

\* "~new_cycle & self.bus.cti == 2" is (~new_cycle & cti) == 2 in Python:
\* new_cycle is widened to the 3 bits of cti before it is inverted, so the
\* mask is 111 when new_cycle = 0 and 110 when new_cycle = 1.
NotNewCycleAndCti(new_cycle, cti) ==
    IF new_cycle = 0 THEN cti ELSE (cti \div 2) * 2

(***************************************************************************)
(* MAC machine: one operator per mac.act(...) state.  Each gives the       *)
(* values of the MAC's registers after the clock edge.                     *)
(***************************************************************************)
MacStates ==
    { "RESET", "IDLE",
      "OPI_READ_32_D", "OPI_READ_32_DLO", "OPI_READ_32_CS", "OPI_READ_32_A0",
      "OPI_READ_32_A1", "OPI_READ_32_A2", "OPI_READ_32_ACKWAIT",
      "OPI_READ_32_DUMMY",
      "WAKEUP_PRE", "WAKEUP_PRE_CS_WAIT", "WAKEUP_WUP", "WAKEUP_WUP_WAIT",
      "WAKEUP_CR2_WREN_1", "WAKEUP_CR2_WREN_1_WAIT", "WAKEUP_CR2_DUMMY_CMD",
      "WAKEUP_CR2_DUMMY_ADRHI", "WAKEUP_CR2_DUMMY_ADRMID",
      "WAKEUP_CR2_DUMMY_ADRLO", "WAKEUP_CR2_DUMMY_DATA",
      "WAKEUP_CR2_DUMMY_WAIT",
      "WAKEUP_CR2_WREN_2", "WAKEUP_CR2_WREN_2_WAIT", "WAKEUP_CR2_DOPI_CMD",
      "WAKEUP_CR2_DOPI_ADR", "WAKEUP_CR2_DOPI_DATA", "WAKEUP_CR2_DOPI_WAIT",
      "WAKEUP_CS_EXIT",
      "SPI_READ_32", "SPI_READ_32_D", "SPI_READ_32_CS", "SPI_READ_32_A0",
      "SPI_READ_32_A1", "SPI_READ_32_A2", "SPI_READ_32_A3", "SPI_READ_32_A4",
      "SPI_READ_32_A5", "SPI_READ_32_DUMMY" }

WakeupStates ==
    { "WAKEUP_PRE", "WAKEUP_PRE_CS_WAIT", "WAKEUP_WUP", "WAKEUP_WUP_WAIT",
      "WAKEUP_CR2_WREN_1", "WAKEUP_CR2_WREN_1_WAIT", "WAKEUP_CR2_DUMMY_CMD",
      "WAKEUP_CR2_DUMMY_ADRHI", "WAKEUP_CR2_DUMMY_ADRMID",
      "WAKEUP_CR2_DUMMY_ADRLO", "WAKEUP_CR2_DUMMY_DATA",
      "WAKEUP_CR2_DUMMY_WAIT",
      "WAKEUP_CR2_WREN_2", "WAKEUP_CR2_WREN_2_WAIT", "WAKEUP_CR2_DOPI_CMD",
      "WAKEUP_CR2_DOPI_ADR", "WAKEUP_CR2_DOPI_DATA", "WAKEUP_CR2_DOPI_WAIT",
      "WAKEUP_CS_EXIT" }

\* the registers' values when the sys reset is released
MacReset ==
    [ state |-> "RESET", spi_mode |-> 0, addr_updated |-> 0, d_to_wb |-> Word0,
      cs_n |-> 1, has_dummy |-> 0, spi_do |-> 0, spi_req |-> 0, opi_do |-> 0,
      opi_req_tx |-> 0, opi_req_rx |-> 0, mac_count |-> 0, bus_ack |-> 0,
      new_cycle |-> 0, rom_addr |-> Rom(RomWordReset, 0), bus_dat_r |-> Word0 ]

\* variant: reset goes straight to IDLE in OPI mode, skipping the wake-up
mac_RESET_SkipWakeup(m) ==
    [m EXCEPT !.spi_mode = 0, !.addr_updated = 0, !.d_to_wb = Word0,
              !.cs_n = 1, !.has_dummy = 0, !.spi_do = 0, !.spi_req = 0,
              !.opi_do = 0, !.opi_req_tx = 0, !.opi_req_rx = 0,
              !.mac_count = 0, !.bus_ack = 0, !.state = "IDLE"]

mac_RESET(m) ==
    [m EXCEPT !.spi_mode = 1, !.addr_updated = 0, !.d_to_wb = Word0,
              !.cs_n = 1, !.has_dummy = 0, !.spi_do = 0, !.spi_req = 0,
              !.opi_do = 0, !.opi_req_tx = 0, !.opi_req_rx = 0,
              !.mac_count = 0, !.bus_ack = 0, !.state = "WAKEUP_PRE",
              !.new_cycle = 1]

\* the three branches of the read dispatch in IDLE
\* variant: every new bus cycle reloads the address, matching or not
NewAddress_EveryCycle(m, b) == m.new_cycle = 1

NewAddress(m, b) == m.rom_addr.word # b.adr /\ m.new_cycle = 1

SameOrBurst(m, b) ==
    m.rom_addr.word = b.adr \/ NotNewCycleAndCti(m.new_cycle, b.cti) = 2

\* variant: any idle cycle without a read restarts the wake-up
IdleCommand_Always(m1, wakeup) ==
    [m1 EXCEPT !.cs_n = 1, !.state = "WAKEUP_PRE"]

\* .Elif(self.command.fields.wakeup, ...): no read is dispatched
IdleCommand(m1, wakeup) ==
    IF wakeup = 1
    THEN [m1 EXCEPT !.cs_n = 1, !.state = "WAKEUP_PRE"]
    ELSE m1

mac_IDLE(m, b, wakeup) ==
    LET m0 == [m EXCEPT !.bus_ack = 0]
        m1 == IF b.stb = 0 THEN [m0 EXCEPT !.new_cycle = 1] ELSE m0
    IN  IF ReadRequested(b)
        THEN IF NewAddress(m, b)
             THEN [m1 EXCEPT !.rom_addr = Rom(b.adr, 0), !.addr_updated = 1,
                             !.cs_n = 1, !.new_cycle = 0,
                             !.mac_count = IF m.spi_mode = 1 THEN 3 ELSE 0,
                             !.state = IF m.spi_mode = 1 THEN "SPI_READ_32_CS"
                                       ELSE "OPI_READ_32_CS"]
             ELSE IF SameOrBurst(m, b)
             THEN IF m.spi_mode = 1
                  THEN [m1 EXCEPT !.mac_count = 3, !.state = "SPI_READ_32"]
                  ELSE [m1 EXCEPT !.opi_req_rx = 1, !.state = "OPI_READ_32_D"]
             ELSE IF m.spi_mode = 0
                  THEN [m1 EXCEPT !.addr_updated = 0, !.cs_n = 0,
                                  !.opi_req_rx = 1, !.state = "OPI_READ_32_D"]
                  ELSE [m1 EXCEPT !.addr_updated = 0, !.cs_n = 0,
                                  !.state = "SPI_READ_32", !.mac_count = 3]
        ELSE IdleCommand(m1, wakeup)

\* variant: the MAC leaves the command register as it is
MacClearsCommand_Never(m, b, wakeup) == FALSE

\* NextValue(self.command.storage, 0) in IDLE
MacClearsCommand(m, b, wakeup) ==
    m.state = "IDLE" /\ ~ReadRequested(b) /\ wakeup = 1

(*--------- OPI read machine ---------*)
mac_OPI_READ_32_D(m, opi_di) ==
    [m EXCEPT !.d_to_wb = ShiftIn16(m.d_to_wb, opi_di),
              !.rom_addr = RomAdd(m.rom_addr, 2),
              !.state = "OPI_READ_32_DLO"]

mac_OPI_READ_32_DLO(m, opi_di) ==
    [m EXCEPT !.d_to_wb = ShiftIn16(m.d_to_wb, opi_di), !.bus_ack = 1,
              !.rom_addr = RomAdd(m.rom_addr, 2), !.opi_req_rx = 0,
              !.state = "IDLE"]

mac_OPI_READ_32_CS(m) ==
    LET m0 == [m EXCEPT !.mac_count = Dec5(m.mac_count)]
    IN  IF m.mac_count = 0
        THEN [m0 EXCEPT !.cs_n = 0, !.state = "OPI_READ_32_A0"]
        ELSE m0

mac_OPI_READ_32_A0(m) ==
    [m EXCEPT !.opi_do = OpiReadCmd, !.opi_req_tx = 1,
              !.state = "OPI_READ_32_A1"]

mac_OPI_READ_32_A1(m) ==
    [m EXCEPT !.opi_do = RomHi(m.rom_addr), !.state = "OPI_READ_32_A2"]

mac_OPI_READ_32_A2(m) ==
    [m EXCEPT !.opi_do = RomLo(m.rom_addr), !.has_dummy = 1,
              !.state = "OPI_READ_32_ACKWAIT"]

\* variant: the transmit request is left asserted
mac_OPI_READ_32_ACKWAIT_KeepTx(m) ==
    [m EXCEPT !.has_dummy = 0, !.state = "OPI_READ_32_DUMMY"]

mac_OPI_READ_32_ACKWAIT(m) ==
    [m EXCEPT !.has_dummy = 0, !.opi_req_tx = 0,
              !.state = "OPI_READ_32_DUMMY"]

mac_OPI_READ_32_DUMMY(m, opi_ack) ==
    IF opi_ack = 1
    THEN [m EXCEPT !.opi_req_rx = 1, !.state = "OPI_READ_32_D"]
    ELSE m

(*--------- wake up the chip ---------*)
\* a state that counts mac_count down and then lowers CS and sends `byte'
\* (WAKEUP_WUP, WAKEUP_CR2_WREN_1, WAKEUP_CR2_WREN_2)
CsWaitThenSend(m, byte, next) ==
    LET m0 == [m EXCEPT !.mac_count = Dec5(m.mac_count)]
    IN  IF m.mac_count = 0
        THEN [m0 EXCEPT !.cs_n = 0, !.spi_do = byte, !.spi_req = 1,
                        !.state = next]
        ELSE m0

\* variant: chip select is raised for one count only
DropReqWaitAck_Short(m, spi_ack, next) ==
    LET m0 == [m EXCEPT !.spi_req = 0]
    IN  IF spi_ack = 1
        THEN [m0 EXCEPT !.cs_n = 1, !.mac_count = 1, !.state = next]
        ELSE m0

\* a state that drops spi_req and, on the PHY's ack, raises CS for CsWait
\* cycles (WAKEUP_WUP_WAIT, ..._WREN_n_WAIT, ..._DUMMY_WAIT, ..._DOPI_WAIT)
DropReqWaitAck(m, spi_ack, next) ==
    LET m0 == [m EXCEPT !.spi_req = 0]
    IN  IF spi_ack = 1
        THEN [m0 EXCEPT !.cs_n = 1, !.mac_count = CsWait, !.state = next]
        ELSE m0

\* variant: chip select is released after every byte
QueueByte_RaiseCs(m, byte, spi_ack, next) ==
    LET m0 == [m EXCEPT !.spi_do = byte]
    IN  IF spi_ack = 1 THEN [m0 EXCEPT !.state = next, !.cs_n = 1] ELSE m0

\* a state that queues `byte' and moves on at the PHY's ack
QueueByte(m, byte, spi_ack, next) ==
    LET m0 == [m EXCEPT !.spi_do = byte]
    IN  IF spi_ack = 1 THEN [m0 EXCEPT !.state = next] ELSE m0

\* variant: restarting the wake-up puts the interface back into SPI mode
mac_WAKEUP_PRE_ToSpi(m) ==
    [m EXCEPT !.spi_mode = 1, !.cs_n = 1, !.mac_count = CsWait,
              !.state = "WAKEUP_PRE_CS_WAIT"]

mac_WAKEUP_PRE(m) ==
    [m EXCEPT !.cs_n = 1, !.mac_count = CsWait,
              !.state = "WAKEUP_PRE_CS_WAIT"]

mac_WAKEUP_PRE_CS_WAIT(m) ==
    LET m0 == [m EXCEPT !.mac_count = Dec5(m.mac_count)]
    IN  IF m.mac_count = 0
        THEN [m0 EXCEPT !.state = "WAKEUP_WUP", !.cs_n = 0]
        ELSE m0

\* 0xAB: wake up from deep sleep
mac_WAKEUP_WUP(m) == CsWaitThenSend(m, 171, "WAKEUP_WUP_WAIT")

mac_WAKEUP_WUP_WAIT(m, spi_ack) ==
    DropReqWaitAck(m, spi_ack, "WAKEUP_CR2_WREN_1")

\* 0x06: WREN
mac_WAKEUP_CR2_WREN_1(m) == CsWaitThenSend(m, 6, "WAKEUP_CR2_WREN_1_WAIT")

mac_WAKEUP_CR2_WREN_1_WAIT(m, spi_ack) ==
    DropReqWaitAck(m, spi_ack, "WAKEUP_CR2_DUMMY_CMD")

\* 0x72: CR2 write command; mac_count counts the leading address bytes
mac_WAKEUP_CR2_DUMMY_CMD(m) ==
    LET m0 == [m EXCEPT !.mac_count = Dec5(m.mac_count)]
    IN  IF m.mac_count = 0
        THEN [m0 EXCEPT !.cs_n = 0, !.spi_do = 114, !.spi_req = 1,
                        !.mac_count = 2, !.state = "WAKEUP_CR2_DUMMY_ADRHI"]
        ELSE m0

mac_WAKEUP_CR2_DUMMY_ADRHI(m, spi_ack) ==
    LET m0 == [m EXCEPT !.spi_do = 0]
        m1 == IF spi_ack = 1
              THEN [m0 EXCEPT !.mac_count = Dec5(m.mac_count)] ELSE m0
    IN  IF m.mac_count = 0
        THEN [m1 EXCEPT !.state = "WAKEUP_CR2_DUMMY_ADRMID"]
        ELSE m1

mac_WAKEUP_CR2_DUMMY_ADRMID(m, spi_ack) ==
    QueueByte(m, 3, spi_ack, "WAKEUP_CR2_DUMMY_ADRLO")

mac_WAKEUP_CR2_DUMMY_ADRLO(m, spi_ack) ==
    QueueByte(m, 0, spi_ack, "WAKEUP_CR2_DUMMY_DATA")

mac_WAKEUP_CR2_DUMMY_DATA(m, spi_ack) ==
    QueueByte(m, 5, spi_ack, "WAKEUP_CR2_DUMMY_WAIT")

mac_WAKEUP_CR2_DUMMY_WAIT(m, spi_ack) ==
    DropReqWaitAck(m, spi_ack, "WAKEUP_CR2_WREN_2")

mac_WAKEUP_CR2_WREN_2(m) == CsWaitThenSend(m, 6, "WAKEUP_CR2_WREN_2_WAIT")

mac_WAKEUP_CR2_WREN_2_WAIT(m, spi_ack) ==
    DropReqWaitAck(m, spi_ack, "WAKEUP_CR2_DOPI_CMD")

\* variant: one address byte fewer in the second register write
mac_WAKEUP_CR2_DOPI_CMD_Short(m) ==
    LET m0 == [m EXCEPT !.mac_count = Dec5(m.mac_count)]
    IN  IF m.mac_count = 0
        THEN [m0 EXCEPT !.cs_n = 0, !.spi_do = 114, !.spi_req = 1,
                        !.mac_count = 3, !.state = "WAKEUP_CR2_DOPI_ADR"]
        ELSE m0

mac_WAKEUP_CR2_DOPI_CMD(m) ==
    LET m0 == [m EXCEPT !.mac_count = Dec5(m.mac_count)]
    IN  IF m.mac_count = 0
        THEN [m0 EXCEPT !.cs_n = 0, !.spi_do = 114, !.spi_req = 1,
                        !.mac_count = 4, !.state = "WAKEUP_CR2_DOPI_ADR"]
        ELSE m0

mac_WAKEUP_CR2_DOPI_ADR(m, spi_ack) ==
    LET m0 == [m EXCEPT !.spi_do = 0]
        m1 == IF spi_ack = 1
              THEN [m0 EXCEPT !.mac_count = Dec5(m.mac_count)] ELSE m0
    IN  IF m.mac_count = 0
        THEN [m1 EXCEPT !.state = "WAKEUP_CR2_DOPI_DATA"]
        ELSE m1

mac_WAKEUP_CR2_DOPI_DATA(m, spi_ack) ==
    QueueByte(m, 2, spi_ack, "WAKEUP_CR2_DOPI_WAIT")

mac_WAKEUP_CR2_DOPI_WAIT(m, spi_ack) ==
    DropReqWaitAck(m, spi_ack, "WAKEUP_CS_EXIT")

\* variant: the wake-up ends without the change to OPI mode
mac_WAKEUP_CS_EXIT_StaySpi(m) ==
    LET m0 == [m EXCEPT !.mac_count = Dec5(m.mac_count)]
    IN  IF m.mac_count = 0 THEN [m0 EXCEPT !.state = "IDLE"] ELSE m0

mac_WAKEUP_CS_EXIT(m) ==
    LET m0 == [m EXCEPT !.spi_mode = 0, !.mac_count = Dec5(m.mac_count)]
    IN  IF m.mac_count = 0 THEN [m0 EXCEPT !.state = "IDLE"] ELSE m0

(*--------- SPI read machine ---------*)
mac_SPI_READ_32(m, spi_ack, spi_di) ==
    IF m.addr_updated = 1
    THEN [m EXCEPT !.state = "SPI_READ_32_CS", !.has_dummy = 0,
                   !.mac_count = 3, !.cs_n = 1, !.spi_req = 0]
    ELSE IF m.mac_count > 0
    THEN [m EXCEPT !.has_dummy = 0, !.spi_req = 1, !.state = "SPI_READ_32_D"]
    ELSE IF spi_ack = 1
    THEN [m EXCEPT !.spi_req = 0,
                   !.bus_dat_r = ShiftIn8(m.d_to_wb, spi_di), !.bus_ack = 1,
                   !.rom_addr = RomAdd(m.rom_addr, 1), !.state = "IDLE"]
    ELSE [m EXCEPT !.spi_req = 0]

mac_SPI_READ_32_D(m, spi_ack, spi_di) ==
    IF spi_ack = 1
    THEN [m EXCEPT !.d_to_wb = ShiftIn8(m.d_to_wb, spi_di),
                   !.mac_count = Dec5(m.mac_count), !.state = "SPI_READ_32",
                   !.rom_addr = RomAdd(m.rom_addr, 1)]
    ELSE m

mac_SPI_READ_32_CS(m) ==
    LET m0 == [m EXCEPT !.mac_count = Dec5(m.mac_count)]
    IN  IF m.mac_count = 0
        THEN [m0 EXCEPT !.cs_n = 0, !.state = "SPI_READ_32_A0"]
        ELSE m0

\* 0x0c: fast read with a 32-bit address
mac_SPI_READ_32_A0(m) ==
    [m EXCEPT !.spi_do = 12, !.spi_req = 1, !.state = "SPI_READ_32_A1"]

mac_SPI_READ_32_A1(m, spi_ack) ==
    QueueByte(m, RomByte3(m.rom_addr), spi_ack, "SPI_READ_32_A2")

mac_SPI_READ_32_A2(m, spi_ack) ==
    QueueByte(m, RomByte2(m.rom_addr), spi_ack, "SPI_READ_32_A3")

mac_SPI_READ_32_A3(m, spi_ack) ==
    QueueByte(m, RomByte1(m.rom_addr), spi_ack, "SPI_READ_32_A4")

mac_SPI_READ_32_A4(m, spi_ack) ==
    QueueByte(m, RomByte0(m.rom_addr), spi_ack, "SPI_READ_32_A5")

mac_SPI_READ_32_A5(m, spi_ack) ==
    QueueByte(m, 0, spi_ack, "SPI_READ_32_DUMMY")

mac_SPI_READ_32_DUMMY(m, spi_ack) ==
    LET m0 == [m EXCEPT !.spi_req = 0, !.addr_updated = 0]
    IN  IF spi_ack = 1
        THEN [m0 EXCEPT !.state = "SPI_READ_32", !.mac_count = 3]
        ELSE m0

\* the MAC's registers after the clock edge: b is the Wishbone input, wakeup
\* the command.wakeup bit, the rest the PHYs' outputs during the cycle
MacNext(m, b, wakeup, spi_ack, spi_di, opi_ack, opi_di) ==
    CASE m.state = "RESET" -> mac_RESET(m)
      [] m.state = "IDLE" -> mac_IDLE(m, b, wakeup)
      [] m.state = "OPI_READ_32_D" -> mac_OPI_READ_32_D(m, opi_di)
      [] m.state = "OPI_READ_32_DLO" -> mac_OPI_READ_32_DLO(m, opi_di)
      [] m.state = "OPI_READ_32_CS" -> mac_OPI_READ_32_CS(m)
      [] m.state = "OPI_READ_32_A0" -> mac_OPI_READ_32_A0(m)
      [] m.state = "OPI_READ_32_A1" -> mac_OPI_READ_32_A1(m)
      [] m.state = "OPI_READ_32_A2" -> mac_OPI_READ_32_A2(m)
      [] m.state = "OPI_READ_32_ACKWAIT" -> mac_OPI_READ_32_ACKWAIT(m)
      [] m.state = "OPI_READ_32_DUMMY" -> mac_OPI_READ_32_DUMMY(m, opi_ack)
      [] m.state = "WAKEUP_PRE" -> mac_WAKEUP_PRE(m)
      [] m.state = "WAKEUP_PRE_CS_WAIT" -> mac_WAKEUP_PRE_CS_WAIT(m)
      [] m.state = "WAKEUP_WUP" -> mac_WAKEUP_WUP(m)
      [] m.state = "WAKEUP_WUP_WAIT" -> mac_WAKEUP_WUP_WAIT(m, spi_ack)
      [] m.state = "WAKEUP_CR2_WREN_1" -> mac_WAKEUP_CR2_WREN_1(m)
      [] m.state = "WAKEUP_CR2_WREN_1_WAIT" ->
            mac_WAKEUP_CR2_WREN_1_WAIT(m, spi_ack)
      [] m.state = "WAKEUP_CR2_DUMMY_CMD" -> mac_WAKEUP_CR2_DUMMY_CMD(m)
      [] m.state = "WAKEUP_CR2_DUMMY_ADRHI" ->
            mac_WAKEUP_CR2_DUMMY_ADRHI(m, spi_ack)
      [] m.state = "WAKEUP_CR2_DUMMY_ADRMID" ->
            mac_WAKEUP_CR2_DUMMY_ADRMID(m, spi_ack)
      [] m.state = "WAKEUP_CR2_DUMMY_ADRLO" ->
            mac_WAKEUP_CR2_DUMMY_ADRLO(m, spi_ack)
      [] m.state = "WAKEUP_CR2_DUMMY_DATA" ->
            mac_WAKEUP_CR2_DUMMY_DATA(m, spi_ack)
      [] m.state = "WAKEUP_CR2_DUMMY_WAIT" ->
            mac_WAKEUP_CR2_DUMMY_WAIT(m, spi_ack)
      [] m.state = "WAKEUP_CR2_WREN_2" -> mac_WAKEUP_CR2_WREN_2(m)
      [] m.state = "WAKEUP_CR2_WREN_2_WAIT" ->
            mac_WAKEUP_CR2_WREN_2_WAIT(m, spi_ack)
      [] m.state = "WAKEUP_CR2_DOPI_CMD" -> mac_WAKEUP_CR2_DOPI_CMD(m)
      [] m.state = "WAKEUP_CR2_DOPI_ADR" -> mac_WAKEUP_CR2_DOPI_ADR(m, spi_ack)
      [] m.state = "WAKEUP_CR2_DOPI_DATA" ->
            mac_WAKEUP_CR2_DOPI_DATA(m, spi_ack)
      [] m.state = "WAKEUP_CR2_DOPI_WAIT" ->
            mac_WAKEUP_CR2_DOPI_WAIT(m, spi_ack)
      [] m.state = "WAKEUP_CS_EXIT" -> mac_WAKEUP_CS_EXIT(m)
      [] m.state = "SPI_READ_32" -> mac_SPI_READ_32(m, spi_ack, spi_di)
      [] m.state = "SPI_READ_32_D" -> mac_SPI_READ_32_D(m, spi_ack, spi_di)
      [] m.state = "SPI_READ_32_CS" -> mac_SPI_READ_32_CS(m)
      [] m.state = "SPI_READ_32_A0" -> mac_SPI_READ_32_A0(m)
      [] m.state = "SPI_READ_32_A1" -> mac_SPI_READ_32_A1(m, spi_ack)
      [] m.state = "SPI_READ_32_A2" -> mac_SPI_READ_32_A2(m, spi_ack)
      [] m.state = "SPI_READ_32_A3" -> mac_SPI_READ_32_A3(m, spi_ack)
      [] m.state = "SPI_READ_32_A4" -> mac_SPI_READ_32_A4(m, spi_ack)
      [] m.state = "SPI_READ_32_A5" -> mac_SPI_READ_32_A5(m, spi_ack)
      [] m.state = "SPI_READ_32_DUMMY" -> mac_SPI_READ_32_DUMMY(m, spi_ack)

(***************************************************************************)
(* PHY machine: SPI.  p is the PHY's registers; spi_req, spi_do, has_dummy *)
(* come from the MAC, dummy from config.fields.dummy, miso from the pin.   *)
(***************************************************************************)
SpiPhyReset ==
    [ state |-> "RESET", spicount |-> 0, spi_clk_en |-> 0, spi_so |-> 0,
      spi_dummy |-> 0, spi_ack_pipe |-> 0, spi_ack |-> 0, spi_si |-> 0,
      spi_di |-> 0, spi_di_load2 |-> 0 ]

\* Cat(self.miso, spi_si[:-1])
ShiftInMiso(spi_si, miso) == (spi_si * 2 + miso) % 256

\* variant: the output register shifts towards bit 0
ShiftOut_Right(spi_so) == spi_so \div 2

\* Cat(0, spi_so[:-1]); mosi is spi_so[7]
ShiftOut(spi_so) == (spi_so * 2) % 256

mosi(p) == p.spi_so \div 128

spi_di_load_Early(p) == IF p.state = "REQ" /\ p.spicount = 1 THEN 1 ELSE 0

\* spi_di_load: a "naked" .eq(1), high in the cycle REQ finds spicount == 0
spi_di_load(p) == IF p.state = "REQ" /\ p.spicount = 0 THEN 1 ELSE 0

spiphy_RESET(p, spi_req, spi_do, has_dummy) ==
    IF spi_req = 1
    THEN [p EXCEPT !.state = "REQ", !.spicount = SpiCountLoad,
                   !.spi_clk_en = 1, !.spi_so = spi_do,
                   !.spi_dummy = has_dummy]
    ELSE [p EXCEPT !.spi_clk_en = 0, !.spi_ack_pipe = 0, !.spicount = 0,
                   !.spi_dummy = 0]

\* variant: a request restarts the byte whatever the count
spiphy_REQ_Restart(p, spi_req, spi_do, has_dummy, dummy) ==
    IF spi_req = 1
    THEN [p EXCEPT !.spi_clk_en = 1, !.spicount = SpiCountLoad,
                   !.spi_so = spi_do, !.spi_ack_pipe = 0,
                   !.spi_dummy = has_dummy]
    ELSE [p EXCEPT !.spicount = IF p.spicount > 0 THEN p.spicount - 1 ELSE 0,
                   !.spi_clk_en = 1, !.spi_so = ShiftOut(p.spi_so),
                   !.spi_ack_pipe = 0]

\* variant: the last bit of a byte is not followed by an acknowledgment
spiphy_REQ_NoAck(p, spi_req, spi_do, has_dummy, dummy) ==
    IF p.spicount > 0
    THEN [p EXCEPT !.spicount = p.spicount - 1, !.spi_clk_en = 1,
                   !.spi_so = ShiftOut(p.spi_so), !.spi_ack_pipe = 0]
    ELSE IF spi_req = 1
    THEN [p EXCEPT !.spi_clk_en = 1, !.spicount = SpiCountLoad,
                   !.spi_so = spi_do, !.spi_ack_pipe = 0,
                   !.spi_dummy = has_dummy]
    ELSE [p EXCEPT !.spi_ack_pipe = 0, !.spi_clk_en = 0, !.state = "RESET"]

spiphy_REQ(p, spi_req, spi_do, has_dummy, dummy) ==
    IF p.spicount > 0
    THEN [p EXCEPT !.spicount = p.spicount - 1, !.spi_clk_en = 1,
                   !.spi_so = ShiftOut(p.spi_so), !.spi_ack_pipe = 0]
    ELSE IF spi_req = 1 /\ p.spi_dummy = 0
    THEN [p EXCEPT !.spi_clk_en = 1, !.spicount = SpiCountLoad,
                   !.spi_so = spi_do, !.spi_ack_pipe = 1,
                   !.spi_dummy = has_dummy]
    ELSE IF spi_req = 0 /\ p.spi_dummy = 0
    THEN [p EXCEPT !.spi_ack_pipe = 1, !.spi_clk_en = 0, !.state = "RESET"]
    ELSE [p EXCEPT !.spicount = dummy, !.spi_clk_en = 1, !.spi_ack_pipe = 0,
                   !.spi_so = 0, !.state = "DUMMY"]

\* "spicount <= 1 & spi_req" is spicount <= (1 & spi_req) in Python; the
\* branch reloads the byte but names no NextState, so the PHY stays in DUMMY
spiphy_DUMMY(p, spi_req, spi_do, has_dummy) ==
    IF p.spicount > 1
    THEN [p EXCEPT !.spicount = p.spicount - 1, !.spi_clk_en = 1]
    ELSE IF p.spicount <= spi_req
    THEN [p EXCEPT !.spi_clk_en = 1, !.spicount = SpiCountLoad,
                   !.spi_so = spi_do, !.spi_ack_pipe = 1,
                   !.spi_dummy = has_dummy]
    ELSE [p EXCEPT !.spi_clk_en = 0, !.spi_ack_pipe = 1, !.state = "RESET"]

\* the FSM's registers, then the pipeline registers of the sync block
SpiPhyNext(p, spi_req, spi_do, has_dummy, dummy, miso) ==
    LET f == CASE p.state = "RESET" ->
                    spiphy_RESET(p, spi_req, spi_do, has_dummy)
               [] p.state = "REQ" ->
                    spiphy_REQ(p, spi_req, spi_do, has_dummy, dummy)
               [] p.state = "DUMMY" ->
                    spiphy_DUMMY(p, spi_req, spi_do, has_dummy)
    IN  [f EXCEPT !.spi_di_load2 = spi_di_load(p),
                  !.spi_di = IF p.spi_di_load2 = 1
                             THEN ShiftInMiso(p.spi_si, miso) ELSE p.spi_di,
                  !.spi_ack = p.spi_ack_pipe,
                  !.spi_si = ShiftInMiso(p.spi_si, miso)]

\* the cycles in which the PHY takes a byte from spi_do into spi_so
SpiPhyLoads(p, spi_req) ==
    \/ p.state = "RESET" /\ spi_req = 1
    \/ p.state = "REQ" /\ p.spicount = 0 /\ spi_req = 1 /\ p.spi_dummy = 0
    \/ p.state = "DUMMY" /\ p.spicount <= 1 /\ p.spicount <= spi_req

(***************************************************************************)
(* PHY machine: OPI.  di is self.di, the IDDR outputs Cat(di_fall,di_rise) *)
(***************************************************************************)
OpiPhyReset ==
    [ state |-> "IDLE", opicount |-> 0, tx |-> 0, do |-> 0, opi_clk_en |-> 0,
      opi_ack |-> 0, opi_di |-> 0 ]

opiphy_IDLE(p, opi_req_tx, opi_req_rx, has_dummy, opi_do, dummy) ==
    IF opi_req_tx = 1 /\ has_dummy = 0
    THEN [p EXCEPT !.state = "IDLE", !.tx = 1, !.opi_clk_en = 1,
                   !.do = opi_do, !.opi_ack = 1]
    ELSE IF opi_req_tx = 1 /\ has_dummy = 1
    THEN [p EXCEPT !.tx = 1, !.state = "DUMMY", !.opi_clk_en = 1,
                   !.do = opi_do, !.opicount = Dec5(dummy), !.opi_ack = 0]
    ELSE IF opi_req_rx = 1
    THEN [p EXCEPT !.tx = 0, !.state = "RX_PIPE", !.opi_clk_en = 1]
    ELSE [p EXCEPT !.tx = 0, !.opi_clk_en = 0, !.opi_ack = 0, !.opicount = 0]

opiphy_RX_PIPE_Hold(p, opi_req_rx, di) ==
    IF opi_req_rx = 0
    THEN [p EXCEPT !.opi_ack = 1, !.state = "IDLE", !.opi_clk_en = 0]
    ELSE [p EXCEPT !.opi_ack = 1, !.opi_clk_en = 1]

opiphy_RX_PIPE(p, opi_req_rx, di) ==
    IF opi_req_rx = 0
    THEN [p EXCEPT !.opi_di = di, !.opi_ack = 1, !.state = "IDLE",
                   !.opi_clk_en = 0]
    ELSE [p EXCEPT !.opi_di = di, !.opi_ack = 1, !.opi_clk_en = 1]

\* "opicount == 0 & opi_req_rx" is opicount == (0 & opi_req_rx) in Python,
\* that is opicount == 0: the Else branch below it is never taken
opiphy_DUMMY(p, opi_req_rx) ==
    IF p.opicount > 0
    THEN [p EXCEPT !.tx = 0, !.opicount = p.opicount - 1, !.do = 0,
                   !.opi_clk_en = 1]
    ELSE IF p.opicount = 0 * opi_req_rx
    THEN [p EXCEPT !.tx = 0, !.state = "RX_PIPE", !.opi_clk_en = 1,
                   !.opi_ack = 1]
    ELSE [p EXCEPT !.tx = 0, !.opi_clk_en = 0, !.opi_ack = 1]

\* variant: the dummy phase follows config.dummy while it counts
OpiPhyNext_Live(p, opi_req_tx, opi_req_rx, has_dummy, opi_do, dummy, di) ==
    CASE p.state = "IDLE" ->
            opiphy_IDLE(p, opi_req_tx, opi_req_rx, has_dummy, opi_do, dummy)
      [] p.state = "RX_PIPE" -> opiphy_RX_PIPE(p, opi_req_rx, di)
      [] p.state = "DUMMY" ->
            IF p.opicount > dummy
            THEN [p EXCEPT !.tx = 0, !.opicount = dummy, !.do = 0,
                           !.opi_clk_en = 1]
            ELSE opiphy_DUMMY(p, opi_req_rx)

OpiPhyNext(p, opi_req_tx, opi_req_rx, has_dummy, opi_do, dummy, di) ==
    CASE p.state = "IDLE" ->
            opiphy_IDLE(p, opi_req_tx, opi_req_rx, has_dummy, opi_do, dummy)
      [] p.state = "RX_PIPE" -> opiphy_RX_PIPE(p, opi_req_rx, di)
      [] p.state = "DUMMY" -> opiphy_DUMMY(p, opi_req_rx)

\* the cycles in which the PHY takes a word from opi_do into self.do
OpiPhyLoads(p, opi_req_tx) == p.state = "IDLE" /\ opi_req_tx = 1

(***************************************************************************)
(* PHY machine mux: the registered clock enable and output enables.        *)
(***************************************************************************)
MuxReset == [clk_en |-> 0, dq_oe |-> 0, dq_mosi_oe |-> 0]

MuxNext(spi_mode, spi_clk_en, opi_clk_en, tx) ==
    [ clk_en |-> IF spi_mode = 1 THEN spi_clk_en ELSE opi_clk_en,
      dq_oe |-> IF spi_mode = 1 THEN 0 ELSE tx,
      dq_mosi_oe |-> IF spi_mode = 1 THEN 1 ELSE tx ]

(***************************************************************************)
(* The fault monitor (ECS_n).  pads.ecs_n goes through a two-register      *)
(* resynchronizer (sync0, ecs_n); ecs_n_delay and ecc_reported are sync    *)
(* registers; ecc_address and ecc_overflow are assigned in a comb block    *)
(* that assigns each to itself where it does not change it, so each holds  *)
(* its value like a transparent latch.  The record holds the registers     *)
(* and, for the two comb signals, their value in the current cycle.        *)
(* A CSR read is "none", "ecc_address" (ecc_address.we) or "ecc_status"    *)
(* (ecc_status.we): the CSR bus carries one access per cycle.              *)
(***************************************************************************)
CsrReads == {"none", "ecc_address", "ecc_status"}

EccReset ==
    [ sync0 |-> 0, ecs_n |-> 0, ecs_n_delay |-> 0, ecc_reported |-> 0,
      ecc_overflow |-> 0, ecc_address |-> Rom(0, 0) ]

\* ecs_pulse.eq(ecs_n_delay & ~ecs_n): falling edge -> positive pulse
ecs_pulse(e) == IF e.ecs_n_delay = 1 /\ e.ecs_n = 0 THEN 1 ELSE 0

\* variant: a status-register read acknowledges the event as well
EccSync_StatusClears(e, pad, rd) ==
    [e EXCEPT !.sync0 = pad,
              !.ecs_n = e.sync0,
              !.ecs_n_delay = e.ecs_n,
              !.ecc_reported = IF ecs_pulse(e) = 1 THEN 1
                               ELSE IF rd # "none" THEN 0
                               ELSE e.ecc_reported]

\* variant: an address-register read wins over a fault edge of its cycle
EccSync_ReadWins(e, pad, rd) ==
    [e EXCEPT !.sync0 = pad,
              !.ecs_n = e.sync0,
              !.ecs_n_delay = e.ecs_n,
              !.ecc_reported = IF rd = "ecc_address" THEN 0
                               ELSE IF ecs_pulse(e) = 1 THEN 1
                               ELSE e.ecc_reported]

\* the sync statements: the registers after the clock edge
EccSync(e, pad, rd) ==
    [e EXCEPT !.sync0 = pad,
              !.ecs_n = e.sync0,
              !.ecs_n_delay = e.ecs_n,
              !.ecc_reported = IF ecs_pulse(e) = 1 THEN 1
                               ELSE IF rd = "ecc_address" THEN 0
                               ELSE e.ecc_reported]

\* variant: a fault edge that finds pending set keeps the address
EccComb_KeepFirst(e, rd, rom) ==
    IF ecs_pulse(e) = 1
    THEN [e EXCEPT !.ecc_address = IF e.ecc_reported = 1 THEN e.ecc_address
                                   ELSE rom,
                   !.ecc_overflow = IF e.ecc_reported = 1 THEN 1
                                    ELSE e.ecc_overflow]
    ELSE [e EXCEPT !.ecc_overflow = IF rd = "ecc_status" THEN 0
                                    ELSE e.ecc_overflow]

\* variant: every fault edge sets the overflow flag
EccComb_AnyEdge(e, rd, rom) ==
    IF ecs_pulse(e) = 1
    THEN [e EXCEPT !.ecc_address = rom, !.ecc_overflow = 1]
    ELSE [e EXCEPT !.ecc_overflow = IF rd = "ecc_status" THEN 0
                                    ELSE e.ecc_overflow]

\* the comb block: the latched signals in the cycle with registers e, CSR
\* read rd and address pointer rom
EccComb(e, rd, rom) ==
    IF ecs_pulse(e) = 1
    THEN [e EXCEPT !.ecc_address = rom,
                   !.ecc_overflow = IF e.ecc_reported = 1 THEN 1
                                    ELSE e.ecc_overflow]
    ELSE [e EXCEPT !.ecc_overflow = IF rd = "ecc_status" THEN 0
                                    ELSE e.ecc_overflow]

\* pad and rd belong to the cycle that ends, rd2 and rom2 to the one that
\* begins
EccNext(e, pad, rd, rd2, rom2) == EccComb(EccSync(e, pad, rd), rd2, rom2)

\* the sys reset clears ecs_n_delay and ecc_reported; the resynchronizer
\* registers have no reset and the comb signals hold
EccResetNext(e, pad, rom2) ==
    EccComb([EccSync(e, pad, "none") EXCEPT !.ecs_n_delay = 0,
                                            !.ecc_reported = 0],
            "none", rom2)

(***************************************************************************)
(* The command CSR (write_from_dev): bit 0 is rdid, bit 1 is wakeup.       *)
(***************************************************************************)
wakeup(cmd) == cmd \div 2

rdid(cmd) == cmd % 2

(***************************************************************************)
(* State.                                                                  *)
(*   mac, spiphy, opiphy, mux  the registers of the design                 *)
(*   command, config_dummy     the CSR storages command and config.dummy   *)
(*   bus                       the Wishbone master's outputs this cycle    *)
(*   pins                      the device's outputs this cycle (miso, di,  *)
(*                             ecs_n)                                      *)
(*   ecc                       the fault monitor                           *)
(*   csr_read                  the CSR read strobe of this cycle           *)
(*   hist                      what has been observed so far (no register  *)
(*                             of the design reads it)                     *)
(***************************************************************************)
VARIABLES mac, spiphy, opiphy, mux, command, config_dummy, bus, pins, ecc,
          csr_read, hist

vars ==
    <<mac, spiphy, opiphy, mux, command, config_dummy, bus, pins, ecc,
      csr_read, hist>>

(***************************************************************************)
(* Observation history.                                                    *)
(*   spi_bytes  bytes the SPI PHY took from the MAC since WAKEUP_PRE       *)
(*   spi_acks   spi_ack pulses since WAKEUP_PRE                            *)
(*   opi_words  <<word, has_dummy>> the OPI PHY took since the MAC left    *)
(*              IDLE                                                       *)
(*   dummies    cycles the OPI PHY spent in DUMMY since the MAC left IDLE  *)
(*   dummy_n    config.dummy when the OPI PHY last started a dummy phase   *)
(*   first_read 1 until the MAC dispatches its first read after reset      *)
(*   req        the bus request of the read the MAC dispatched last        *)
(*   deferred   1 while the bus holds a read request that it first         *)
(*              presented during RESET or a WAKEUP_* state                 *)
(*   collide    1 when, in the cycle before, software wrote the command    *)
(*              register while the MAC cleared it                          *)
(*   edges      fault edges up to this cycle that no address-register read *)
(*              has followed (a read in the cycle of an edge does not      *)
(*              follow it), counted up to 2                                *)
(*   shift      spi_clk_en of the cycle before                             *)
(*   rx         the miso bits of the byte in flight, one per cycle that    *)
(*              follows a cycle with spi_clk_en = 1                        *)
(*   tx         the mosi bits of the byte in flight, one per cycle with    *)
(*              spi_clk_en = 1                                             *)
(*   cs_high    consecutive cycles, this one included, in which cs_n has   *)
(*              been 1, counted up to CsHighMax                            *)
(*   cs_bytes   bytes the SPI PHY took since cs_n was last high            *)
(*   cs_gap     after a falling edge of cs_n, and until a PHY has taken    *)
(*              the first byte or word sent under it: the cs_high of the   *)
(*              cycle before the edge; 0 otherwise                         *)
(***************************************************************************)
\* the logs stop growing at this length
LogMax == 16

\* the chip-select high time is counted up to this many cycles
CsHighMax == 6

HistReset ==
    [ spi_bytes |-> <<>>, spi_acks |-> 0, opi_words |-> <<>>, dummies |-> 0,
      dummy_n |-> 0, first_read |-> 1, req |-> BusIdle, deferred |-> 0,
      edges |-> 0, collide |-> 0, shift |-> 0, rx |-> <<>>, cs_high |-> 1,
      cs_gap |-> 0, tx |-> <<>>, cs_bytes |-> <<>> ]

Min(a, b) == IF a < b THEN a ELSE b

Log(q, x) == IF Len(q) < LogMax THEN Append(q, x) ELSE q

\* cyc & stb & ~we: a read request, whatever its cycle type
IsRead(b) == b.cyc = 1 /\ b.stb = 1 /\ b.we = 0

\* the edge count of the next cycle
EdgesNext(h, e, rd, e2) ==
    Min(2, ecs_pulse(e2)
           + (IF rd = "ecc_address" THEN ecs_pulse(e) ELSE h.edges))

\* the bits of the byte in flight: a cycle that follows one with
\* spi_clk_en = 1 carries a bit on miso; the 8th bit completes the byte and
\* the collection starts again
RxNext(h, miso) ==
    IF h.shift = 1
    THEN IF Len(h.rx) = 8 THEN <<miso>> ELSE Append(h.rx, miso)
    ELSE IF Len(h.rx) = 8 THEN <<>> ELSE h.rx

\* the bits sent of the byte in flight: a cycle with spi_clk_en = 1 puts
\* spi_so[7] on mosi; the 8th bit completes the byte and the collection
\* starts again
TxNext(h, sp) ==
    IF sp.spi_clk_en = 1
    THEN IF Len(h.tx) = 8 THEN <<mosi(sp)>> ELSE Append(h.tx, mosi(sp))
    ELSE IF Len(h.tx) = 8 THEN <<>> ELSE h.tx

HistNext(h, m, sp, op, b, dummy, m2, b2, e, rd, e2, collide, miso) ==
    [ spi_bytes |->
          IF m.state = "WAKEUP_PRE" THEN <<>>
          ELSE IF SpiPhyLoads(sp, m.spi_req) THEN Log(h.spi_bytes, m.spi_do)
          ELSE h.spi_bytes,
      spi_acks |->
          IF m.state = "WAKEUP_PRE" THEN 0
          ELSE Min(h.spi_acks + sp.spi_ack, LogMax),
      opi_words |->
          IF m.state = "IDLE" THEN <<>>
          ELSE IF OpiPhyLoads(op, m.opi_req_tx)
          THEN Log(h.opi_words, <<m.opi_do, m.has_dummy>>)
          ELSE h.opi_words,
      dummies |->
          IF m.state = "IDLE" THEN 0
          ELSE IF op.state = "DUMMY" THEN Min(h.dummies + 1, 2 * CountMod)
          ELSE h.dummies,
      dummy_n |->
          IF OpiPhyLoads(op, m.opi_req_tx) /\ m.has_dummy = 1 THEN dummy
          ELSE h.dummy_n,
      first_read |->
          IF m.state = "IDLE" /\ ReadRequested(b) THEN 0 ELSE h.first_read,
      req |->
          IF m.state = "IDLE" /\ ReadRequested(b) THEN b ELSE h.req,
      deferred |->
          IF IsRead(b2)
             /\ \/ m2.state \in WakeupStates \cup {"RESET"}
                \/ h.deferred = 1 /\ b2 = b /\ m.bus_ack = 0
          THEN 1 ELSE 0,
      edges |-> EdgesNext(h, e, rd, e2),
      collide |-> collide,
      shift |-> sp.spi_clk_en,
      rx |-> RxNext(h, miso),
      cs_high |-> IF m2.cs_n = 1 THEN Min(h.cs_high + 1, CsHighMax) ELSE 0,
      cs_gap |->
          IF m2.cs_n = 1 THEN 0
          ELSE IF m.cs_n = 1 THEN h.cs_high
          ELSE IF SpiPhyLoads(sp, m.spi_req) \/ OpiPhyLoads(op, m.opi_req_tx)
          THEN 0
          ELSE h.cs_gap,
      tx |-> TxNext(h, sp),
      cs_bytes |->
          LET base == IF m.cs_n = 1 THEN <<>> ELSE h.cs_bytes
          IN  IF SpiPhyLoads(sp, m.spi_req) THEN Log(base, m.spi_do)
              ELSE base ]

(***************************************************************************)
(* Environment.  E names the inputs one specification lets vary:           *)
(*   pages  base word addresses the master reads from                      *)
(*   wpages word addresses the master writes to                            *)
(*   others further bus values: a strobe without cyc                       *)
(*   withdraw  whether the master may drop a request before its ack        *)
(*   repeat    whether the master may present the request that has just    *)
(*             been acknowledged once more in the next cycle               *)
(*   ctis   cycle-type values of its reads                                 *)
(*   cmds   values software writes to the command register                 *)
(*   cfgs   values software writes to config.dummy                         *)
(*   miso      bytes the device sends on miso, first bit most significant  *)
(*   di        values the device drives on the OPI lanes                   *)
(***************************************************************************)
\* the addresses the master presents: each page base and the words after it
Addrs(E) == { (pg + k) % AdrWords : pg \in E.pages, k \in 0..MaxBurst }

\* stb without cyc: another slave of the shared bus is addressed
StbOnly == [BusIdle EXCEPT !.stb = 1]

BusValues(E) ==
    { BusIdle } \cup E.others
    \cup { [cyc |-> 1, stb |-> 1, we |-> 1, cti |-> 0, adr |-> a] :
             a \in E.wpages }
    \cup { [cyc |-> 1, stb |-> 1, we |-> 0, cti |-> c, adr |-> a] :
             c \in E.ctis, a \in Addrs(E) }

\* a Wishbone master keeps its request until it sees the acknowledgment (it
\* may also withdraw it); after the acknowledgment, or with no request of
\* its own pending, it presents anything
BusHeld(b, ack) == b.cyc = 1 /\ b.stb = 1 /\ ack = 0

\* the master reads at most MaxBurst words past a page base: it presents no
\* read that IDLE would serve without reloading rom_addr from beyond there
InRoom(E, m2, b2) ==
    (m2.state = "IDLE" /\ ReadRequested(b2) /\ ~NewAddress(m2, b2))
        => m2.rom_addr.word \in Addrs(E)

\* the word rom_addr points at when the MAC is next in IDLE: every read
\* state is followed by the two rom_addr + 2 of OPI_READ_32_D and _DLO
WordAtIdle(m2) ==
    IF m2.state \in {"OPI_READ_32_CS", "OPI_READ_32_A0", "OPI_READ_32_A1",
                     "OPI_READ_32_A2", "OPI_READ_32_ACKWAIT",
                     "OPI_READ_32_DUMMY", "OPI_READ_32_D", "OPI_READ_32_DLO"}
    THEN RomAdd(m2.rom_addr, 4 - m2.rom_addr.lo).word
    ELSE m2.rom_addr.word

\* a master that never withdraws presents a read only if the word IDLE will
\* serve for it, and the word IDLE fetches next while the request is still
\* on the bus in its acknowledgment cycle, are both in the room
Sustained(E, m2, b2) ==
    ReadRequested(b2) =>
        LET served == IF WordAtIdle(m2) # b2.adr /\ m2.new_cycle = 1
                      THEN b2.adr ELSE WordAtIdle(m2)
        IN  served \in Addrs(E) /\ (served + 1) % AdrWords \in Addrs(E)

BusNext(E, b, ack, m2) ==
    { b2 \in (IF BusHeld(b, ack)
              THEN {b} \cup (IF E.withdraw THEN {BusIdle} ELSE {})
              ELSE { v \in BusValues(E) :
                       /\ E.withdraw \/ Sustained(E, m2, v)
                       /\ E.repeat \/ ack = 0 \/ v # b }) :
        InRoom(E, m2, b2) }

\* the device drives its error strobe, and software reads the fault
\* registers, once the wake-up has put the device into OPI mode
FaultWindow(m2) ==
    m2.spi_mode = 0 /\ m2.state \notin WakeupStates \cup {"RESET"}

\* the strobe is slow against the sys clock: it falls only after the
\* resynchronizer has seen it high
StrobeSettled(e, p) ==
    p.ecs_n = 0 \/ (e.sync0 = 1 /\ e.ecs_n = 1 /\ e.ecs_n_delay = 1)

\* in SPI mode the device puts a bit on miso in the cycles in which the
\* clock is enabled on the wire, one cycle after spi_clk_en; otherwise the
\* line is low
SpiBit(m, sp) == m.spi_mode = 1 /\ sp.spi_clk_en = 1

IsPrefix(p, q) == Len(p) <= Len(q) /\ SubSeq(q, 1, Len(p)) = p

\* the bits of a byte, first bit most significant
BitsOf(byte) == [ i \in 1..8 |-> (byte \div 2 ^ (8 - i)) % 2 ]

\* the device sends bytes of E.miso: after the bits rx of a byte it sends a
\* bit that continues one of them
MisoBits(E, rx) ==
    LET sent == IF Len(rx) = 8 THEN <<>> ELSE rx
        bytes == { y \in E.miso : IsPrefix(sent, BitsOf(y)) }
    IN  IF bytes = {} THEN {0}
        ELSE { BitsOf(byte)[Len(sent) + 1] : byte \in bytes }

\* what software writes to the command register in a cycle: nothing, or
\* one value
CsrWrites(E) == {<<>>} \cup { <<c>> : c \in E.cmds }

\* software's write and the MAC's "clear all pending commands" may fall in
\* the same cycle; which of the two sync statements is the later one is fixed
\* outside this file, so both results are possible
CommandNext(cmd, clear, w) ==
    IF w = <<>> THEN {IF clear THEN 0 ELSE cmd}
    ELSE IF clear THEN {0, w[1]}
    ELSE {w[1]}

\* variant: a fault edge makes the MAC give up the read in flight
SyncMac_FaultAborts(m, b, cmd, sp, op, e, rd) ==
    LET m2 == MacNext(m, b, wakeup(cmd), sp.spi_ack, sp.spi_di,
                      op.opi_ack, op.opi_di)
    IN  IF ecs_pulse(e) = 1
        THEN [m2 EXCEPT !.state = "IDLE", !.opi_req_rx = 0, !.opi_req_tx = 0]
        ELSE m2

\* the MAC's registers after the edge.  The MAC shares the module with the
\* fault monitor, whose signals e and CSR strobes rd are in scope, but no
\* MAC statement reads them: rom_addr is only read by the monitor
SyncMac(m, b, cmd, sp, op, e, rd) ==
    MacNext(m, b, wakeup(cmd), sp.spi_ack, sp.spi_di, op.opi_ack, op.opi_di)

(***************************************************************************)
(* One clock edge.                                                         *)
(***************************************************************************)
Tick(E) ==
    LET m2 == SyncMac(mac, bus, command, spiphy, opiphy, ecc, csr_read)
        clear == MacClearsCommand(mac, bus, wakeup(command))
    IN  \E w \in CsrWrites(E) :
        /\ mac' = m2
        /\ spiphy' = SpiPhyNext(spiphy, mac.spi_req, mac.spi_do,
                                mac.has_dummy, config_dummy, pins.miso)
        /\ opiphy' = OpiPhyNext(opiphy, mac.opi_req_tx, mac.opi_req_rx,
                                mac.has_dummy, mac.opi_do, config_dummy,
                                pins.di)
        /\ mux' = MuxNext(mac.spi_mode, spiphy.spi_clk_en,
                          opiphy.opi_clk_en, opiphy.tx)
        /\ command' \in CommandNext(command, clear, w)
        /\ config_dummy' \in {config_dummy} \cup E.cfgs
        /\ bus' \in BusNext(E, bus, mac.bus_ack, m2)
        /\ pins' \in [miso : IF SpiBit(mac, spiphy)
                              THEN MisoBits(E, RxNext(hist, pins.miso))
                              ELSE {0},
                       di : E.di,
                       ecs_n : IF FaultWindow(m2) /\ StrobeSettled(ecc, pins)
                               THEN E.ecs ELSE {1}]
        /\ csr_read' \in (IF FaultWindow(m2) THEN E.rds ELSE {"none"})
        /\ ecc' = EccNext(ecc, pins.ecs_n, csr_read, csr_read', m2.rom_addr)
        /\ hist' = HistNext(hist, mac, spiphy, opiphy, bus, config_dummy,
                            m2, bus', ecc, csr_read, ecc',
                            IF clear /\ w # <<>> THEN 1 ELSE 0, pins.miso)

\* the sys reset: every register back to its reset value
Init ==
    /\ mac = MacReset
    /\ spiphy = SpiPhyReset
    /\ opiphy = OpiPhyReset
    /\ mux = MuxReset
    /\ command = 0
    /\ config_dummy = DummyReset
    /\ bus = BusIdle
    /\ pins = [miso |-> 0, di |-> 0, ecs_n |-> 1]
    /\ ecc = EccReset
    /\ csr_read = "none"
    /\ hist = HistReset

Reset ==
    /\ mac.state # "RESET"
    /\ mac' = MacReset
    /\ spiphy' = SpiPhyReset
    /\ opiphy' = OpiPhyReset
    /\ mux' = MuxReset
    /\ command' = 0
    /\ config_dummy' = DummyReset
    /\ bus' = BusIdle
    /\ pins' = [miso |-> 0, di |-> 0, ecs_n |-> pins.ecs_n]
    /\ ecc' = EccResetNext(ecc, pins.ecs_n, MacReset.rom_addr)
    /\ csr_read' = "none"
    /\ hist' = HistReset

(***************************************************************************)
(* Specifications.                                                         *)
(*   Spec      reads: two pages (one of them the word the reset value of   *)
(*             rom_addr names), every cycle type, config.dummy written     *)
(*   SpecWake  wake-up: software writes the command register at any time   *)
(*   SpecData  read data: the device drives varying data on the lanes      *)
(*   SpecSpi   SPI receive: the device sends varying bytes on miso         *)
(*   SpecId    identification: software sets the rdid bit, the clock keeps  *)
(*             running                                                     *)
(*   SpecLive  progress: the clock keeps running and the master holds its  *)
(*             requests                                                    *)
(*   SpecFault fault monitor: the device drives the fault strobe and       *)
(*             software reads the fault registers at any time              *)
(***************************************************************************)
EnvRead ==
    [ pages |-> {RomWordReset, 51199998}, ctis |-> {0, 2, 7}, cmds |-> {},
      cfgs |-> 0..MaxDummyWrite, miso |-> {0}, di |-> {4660}, ecs |-> {1},
      rds |-> {"none"}, wpages |-> {RomWordReset, 51199998},
      others |-> {StbOnly}, withdraw |-> TRUE,
      repeat |-> TRUE ]

EnvWake ==
    [ pages |-> {1024}, ctis |-> {0, 2, 7}, cmds |-> {1, 2}, cfgs |-> {},
      miso |-> {0}, di |-> {4660}, ecs |-> {1}, rds |-> {"none"},
      wpages |-> {1024}, others |-> {StbOnly}, withdraw |-> TRUE,
      repeat |-> TRUE ]

EnvFault ==
    [ pages |-> {1024}, ctis |-> {0}, cmds |-> {}, cfgs |-> {},
      miso |-> {0}, di |-> {4660}, ecs |-> {0, 1}, rds |-> CsrReads,
      wpages |-> {}, others |-> {}, withdraw |-> FALSE,
      repeat |-> TRUE ]

Next == Tick(EnvRead) \/ Reset

Spec == Init /\ [][Next]_vars

NextWake == Tick(EnvWake) \/ Reset

SpecWake == Init /\ [][NextWake]_vars

NextFault == Tick(EnvFault) \/ Reset

SpecFault == Init /\ [][NextFault]_vars

\* the device answers reads with any of three lane values, a new one in
\* every cycle
EnvData ==
    [ pages |-> {1024}, ctis |-> {0, 2}, cmds |-> {}, cfgs |-> {},
      miso |-> {0}, di |-> {0, 4660, 65535}, ecs |-> {1}, rds |-> {"none"},
      wpages |-> {}, others |-> {}, withdraw |-> FALSE,
      repeat |-> TRUE ]

NextData == Tick(EnvData) \/ Reset

SpecData == Init /\ [][NextData]_vars

\* the device answers the bytes of the wake-up with any of four bytes
EnvSpi ==
    [ pages |-> {1024}, ctis |-> {0}, cmds |-> {}, cfgs |-> {},
      miso |-> {0, 165, 178, 255}, di |-> {4660}, ecs |-> {1}, rds |-> {"none"},
      wpages |-> {}, others |-> {}, withdraw |-> FALSE,
      repeat |-> TRUE ]

NextSpi == Tick(EnvSpi) \/ Reset

SpecSpi == Init /\ [][NextSpi]_vars

\* software sets the rdid bit of the command register
EnvId ==
    [ pages |-> {1024}, ctis |-> {0}, cmds |-> {1}, cfgs |-> {},
      miso |-> {0}, di |-> {4660}, ecs |-> {1}, rds |-> {"none"},
      wpages |-> {}, others |-> {}, withdraw |-> FALSE,
      repeat |-> TRUE ]

NextId == Tick(EnvId) \/ Reset

\* the sys clock never stops
SpecId == Init /\ [][NextId]_vars /\ WF_vars(Tick(EnvId))

\* the master holds every request until its acknowledgment
EnvLive ==
    [ pages |-> {1024}, ctis |-> {0, 2, 7}, cmds |-> {}, cfgs |-> {},
      miso |-> {0}, di |-> {4660}, ecs |-> {1}, rds |-> {"none"},
      wpages |-> {}, others |-> {}, withdraw |-> FALSE,
      repeat |-> TRUE ]

NextLive == Tick(EnvLive) \/ Reset

\* the sys clock never stops
SpecLive == Init /\ [][NextLive]_vars /\ WF_vars(Tick(EnvLive))

\* one power-up with no further reset: the master reads, software writes
\* config.dummy = 0, and the sys clock never stops
EnvBoot ==
    [ pages |-> {1024}, ctis |-> {0, 2}, cmds |-> {}, cfgs |-> {0},
      miso |-> {0}, di |-> {4660}, ecs |-> {1}, rds |-> {"none"},
      wpages |-> {}, others |-> {}, withdraw |-> FALSE,
      repeat |-> TRUE ]

NextBoot == Tick(EnvBoot)

SpecBoot == Init /\ [][NextBoot]_vars /\ WF_vars(Tick(EnvBoot))

\* a master that holds every request until its acknowledgment and releases
\* or changes it in the cycle after; it reads and writes
EnvBus ==
    [ pages |-> {1024}, ctis |-> {0, 2}, cmds |-> {}, cfgs |-> {},
      miso |-> {0}, di |-> {4660}, ecs |-> {1}, rds |-> {"none"},
      wpages |-> {1024}, others |-> {}, withdraw |-> FALSE,
      repeat |-> FALSE ]

NextBus == Tick(EnvBus) \/ Reset

SpecBus == Init /\ [][NextBus]_vars

\* the SPI PHY on its own: its three inputs from the MAC (spi_req, spi_do,
\* has_dummy) take any value in every cycle, has_dummy = 1 included, which
\* the MAC's wake-up never sets
PhyBytes == {0, 12, 171}

InitSpiPhy ==
    /\ mac = MacReset
    /\ spiphy = SpiPhyReset
    /\ opiphy = OpiPhyReset
    /\ mux = MuxReset
    /\ command = 0
    /\ config_dummy \in {0, 3, DummyReset}
    /\ bus = BusIdle
    /\ pins = [miso |-> 0, di |-> 0, ecs_n |-> 1]
    /\ ecc = EccReset
    /\ csr_read = "none"
    /\ hist = HistReset

SpiPhyStep ==
    /\ \E r \in 0..1, d \in PhyBytes, hd \in 0..1 :
           mac' = [mac EXCEPT !.spi_req = r, !.spi_do = d, !.has_dummy = hd]
    /\ spiphy' = SpiPhyNext(spiphy, mac.spi_req, mac.spi_do, mac.has_dummy,
                            config_dummy, pins.miso)
    /\ UNCHANGED <<opiphy, mux, command, config_dummy, bus, pins, ecc,
                   csr_read, hist>>

NextSpiPhy == SpiPhyStep

SpecSpiPhy == InitSpiPhy /\ [][NextSpiPhy]_vars


(***************************************************************************)
(* Properties.                                                             *)
(***************************************************************************)
\* the states in which the MAC performs an OPI read
OpiReadStates ==
    { "OPI_READ_32_CS", "OPI_READ_32_A0", "OPI_READ_32_A1", "OPI_READ_32_A2",
      "OPI_READ_32_ACKWAIT", "OPI_READ_32_DUMMY", "OPI_READ_32_D",
      "OPI_READ_32_DLO" }

\* the bytes the wake-up states queue, in the order of the states:
\* 0xAB, 0x06, 0x72 0x00 0x00 0x03 0x00 0x05, 0x06, 0x72 0x00 0x00 0x00 0x00
\* 0x02
WakeupBytes == <<171, 6, 114, 0, 0, 3, 0, 5, 6, 114, 0, 0, 0, 0, 2>>

\* C1: between one reset and the next the mode goes from SPI to OPI at most
\* once and never back.  Past the RESET state the mode register, once 0
\* (OPI), stays 0 on every step that is not a reset, and the only step that
\* takes it from 1 (SPI) to 0 is the one of WAKEUP_CS_EXIT.
C1_ModeOneWay ==
    [][ /\ (mac.spi_mode = 0 /\ mac.state # "RESET" /\ mac'.state # "RESET")
            => mac'.spi_mode = 0
        /\ (mac.spi_mode = 1 /\ mac'.spi_mode = 0 /\ mac'.state # "RESET")
            => mac.state = "WAKEUP_CS_EXIT" ]_vars

\* C1 witness: the wake-up runs again in OPI mode after a read was served
C1_Witness ==
    /\ mac.state = "WAKEUP_CR2_DOPI_WAIT"
    /\ mac.spi_mode = 0
    /\ hist.first_read = 0

\* C2 as the specification words it: the bytes handed to the SPI PHY are
\* 0xAB, 0x06, 0x72, 0x00 0x03 0x00 0x05, 0x06, 0x72, 0x00 0x00 0x00 0x02
\* with no other byte in between.
C2_Original ==
    IsPrefix(hist.spi_bytes, <<171, 6, 114, 0, 3, 0, 5, 6, 114, 0, 0, 0, 2>>)

\* C2: a wake-up hands the SPI PHY the bytes 0xAB, 0x06, 0x72 0x00 0x00 0x03
\* 0x00 0x05, 0x06, 0x72 0x00 0x00 0x00 0x00 0x02 in this order with no other
\* byte in between (each register write carries four address bytes), the MAC
\* leaves the wake-up states only when all of them were handed over, and the
\* mode becomes OPI only after the PHY has acknowledged the last one.
C2_WakeupSequence ==
    /\ [](/\ IsPrefix(hist.spi_bytes, WakeupBytes)
          /\ mac.state \in {"IDLE"} \cup OpiReadStates
                => hist.spi_bytes = WakeupBytes /\ hist.spi_acks = 15)
    /\ [][ (mac.spi_mode = 1 /\ mac'.spi_mode = 0 /\ mac'.state # "RESET")
             => hist.spi_bytes = WakeupBytes /\ hist.spi_acks = 15 ]_vars

\* C2 witness: the boot wake-up has finished: fifteen bytes, mode OPI
C2_Witness ==
    /\ mac.state = "IDLE"
    /\ hist.spi_bytes = WakeupBytes
    /\ hist.spi_acks = 15
    /\ hist.first_read = 1
    /\ mac.spi_mode = 0

\* C3 as the specification words it: once the MAC has reached IDLE no bus
\* request and no command-register write makes it run the wake-up again.
C3_Original ==
    [][ mac.state = "IDLE" => mac'.state \notin WakeupStates ]_vars

\* C3: the wake-up runs once on its own after reset; afterwards the MAC
\* starts it again only from IDLE, only while the wakeup bit of the command
\* register is set and only in a cycle in which it dispatches no read.  No
\* bus request starts it, and bytes go to the SPI PHY in wake-up states only.
C3_WakeupRestart ==
    /\ [][ /\ mac.state = "RESET" /\ mac'.state # "RESET"
                => mac'.state = "WAKEUP_PRE"
           /\ (mac'.state = "WAKEUP_PRE" /\ mac.state # "RESET")
                => /\ mac.state = "IDLE"
                   /\ command \div 2 = 1
                   /\ ~ReadRequested(bus) ]_vars
    /\ [](mac.spi_req = 1 => mac.state \in WakeupStates)

\* C3 witness: a wake-up started from IDLE by the command register
C3_Witness ==
    /\ mac.state = "WAKEUP_WUP_WAIT"
    /\ mac.spi_mode = 0
    /\ mac.spi_req = 1

\* C4: in RESET and in every WAKEUP_* state the MAC acknowledges no bus
\* cycle and requests no OPI PHY cycle, the OPI PHY is idle and the SPI PHY
\* has been handed wake-up bytes only (no read command); a bus
\* acknowledgment or an OPI PHY request occurs only when the latest wake-up
\* has handed over and had acknowledged all of its bytes.
C4_NoReadDuringWakeup ==
    /\ mac.state \in WakeupStates \cup {"RESET"}
         => /\ mac.bus_ack = 0
            /\ mac.opi_req_tx = 0
            /\ mac.opi_req_rx = 0
            /\ opiphy.state = "IDLE"
            /\ IsPrefix(hist.spi_bytes, WakeupBytes)
    /\ (mac.bus_ack = 1 \/ mac.opi_req_tx = 1 \/ mac.opi_req_rx = 1)
         => hist.spi_bytes = WakeupBytes /\ hist.spi_acks = 15

\* C4 witness: a read request is on the bus in the middle of a wake-up
C4_Witness ==
    /\ mac.state = "WAKEUP_CR2_DUMMY_ADRMID"
    /\ ReadRequested(bus)
    /\ hist.deferred = 1

\* C5 as the specification words it: a read request asserted while the
\* wake-up runs and held is serviced after the wake-up: when the MAC is in
\* IDLE with such a request on the bus it dispatches the read.
C5_Original ==
    [][ (hist.deferred = 1 /\ mac.state = "IDLE" /\ mac'.state # "RESET")
          => mac'.state \in OpiReadStates ]_vars

\* the fast path out of IDLE: receive cycles only; chip select, address
\* register and transmit side untouched
FastPathStep ==
    /\ mac'.state = "OPI_READ_32_D"
    /\ mac'.opi_req_rx = 1
    /\ mac'.opi_req_tx = 0
    /\ mac'.has_dummy = 0
    /\ mac'.cs_n = mac.cs_n
    /\ mac'.rom_addr = mac.rom_addr

C7_Original ==
    [][ (mac.state = "IDLE" /\ ReadRequested(bus) /\ mac'.state # "RESET"
           /\ (bus.cti # 2 \/ bus.adr # mac.rom_addr.word))
          => mac'.state = "OPI_READ_32_CS" ]_vars

\* C8 as the specification words it: the first read after reset takes the
\* full path, whatever its address.
C8_Original ==
    [][ (mac.state = "IDLE" /\ ReadRequested(bus) /\ hist.first_read = 1
           /\ mac'.state # "RESET")
          => mac'.state = "OPI_READ_32_CS" ]_vars

\* C9 as the specification words it: when the PHY acknowledges the dummy
\* phase of a read it has spent exactly as many dummy cycles as config.dummy
\* held when the phase was requested.
C9_Original ==
    (mac.state = "OPI_READ_32_DUMMY" /\ opiphy.opi_ack = 1)
        => hist.dummies = hist.dummy_n

\* the three words of a full-path read of the address in rom_addr
FullPathWords(r) ==
    << <<60945, 0>>,
       <<(r.word \div 16384) % 2048, 0>>,
       <<(r.word % 16384) * 4 + r.lo, 1>> >>

\* C10: a full-path read hands the OPI PHY the command 0xEE11, then
\* rom_addr[31:16] & 0x07FF, then rom_addr[15:0], requests the dummy phase
\* with the last of them and with no other, then requests receive cycles;
\* chip select is low from the first word to the end of the read.
C10_FullPath ==
    /\ mac.state \in {"OPI_READ_32_CS", "OPI_READ_32_A0", "OPI_READ_32_A1"}
         => hist.opi_words = <<>>
    /\ mac.state = "OPI_READ_32_A2"
         => hist.opi_words = SubSeq(FullPathWords(mac.rom_addr), 1, 1)
    /\ mac.state = "OPI_READ_32_ACKWAIT"
         => hist.opi_words = SubSeq(FullPathWords(mac.rom_addr), 1, 2)
    /\ mac.state = "OPI_READ_32_DUMMY"
         => /\ hist.opi_words = FullPathWords(mac.rom_addr)
            /\ mac.rom_addr.word = hist.req.adr /\ mac.rom_addr.lo = 0
    /\ (mac.state \in {"OPI_READ_32_D", "OPI_READ_32_DLO"}
          /\ hist.opi_words # <<>>)
         => /\ hist.opi_words = FullPathWords(Rom(hist.req.adr, 0))
            /\ opiphy.state # "DUMMY"
    /\ mac.state \in {"OPI_READ_32_A0", "OPI_READ_32_A1", "OPI_READ_32_A2",
                      "OPI_READ_32_ACKWAIT", "OPI_READ_32_DUMMY"}
         => mac.cs_n = 0
    /\ hist.opi_words # <<>> => mac.cs_n = 0
    /\ mac.has_dummy = 1 => mac.state = "OPI_READ_32_ACKWAIT"
    /\ mac.opi_req_tx = 1
         => mac.state \in {"OPI_READ_32_A1", "OPI_READ_32_A2",
                           "OPI_READ_32_ACKWAIT"}
    /\ mac.opi_req_rx = 1
         => mac.state \in {"OPI_READ_32_D", "OPI_READ_32_DLO"}

\* C10 witness: the full-path read of word 51199998 (0x0C34 FFF8 as a byte
\* address) is in its data states: 0xEE11, 0x0434, 0xFFF8 went out
C10_Witness ==
    /\ mac.state = "OPI_READ_32_D"
    /\ hist.opi_words = << <<60945, 0>>, <<1076, 0>>, <<65528, 1>> >>
    /\ hist.dummies = config_dummy
    /\ mac.cs_n = 0

\* C11 as the specification words it: in the cycle bus.ack is asserted the
\* bus read-data port carries the word the MAC assembled for the read.
C11_Original ==
    mac.bus_ack = 1 => mac.bus_dat_r = mac.d_to_wb

\* C12: in the cycle of a fault edge that follows another one with no
\* address-register read between them overflow is set, and overflow goes
\* from 0 to 1 only in the cycle of a fault edge that finds pending
\* (ecc_reported) still set.
C12_Overflow ==
    /\ []((ecs_pulse(ecc) = 1 /\ hist.edges = 2) => ecc.ecc_overflow = 1)
    /\ [][ (ecc.ecc_overflow = 0 /\ ecc'.ecc_overflow = 1)
             => ecs_pulse(ecc') = 1 /\ ecc'.ecc_reported = 1 ]_vars

\* C12 witness: a second edge with no address read since the first, in the
\* cycle of a status-register read
C12_Witness ==
    /\ ecs_pulse(ecc) = 1
    /\ hist.edges = 2
    /\ ecc.ecc_overflow = 1
    /\ csr_read = "ecc_status"

\* C13 as the specification words it: a second fault edge before the
\* address register has been read leaves the latched fault address as it
\* was.
C13_Original ==
    [][ (ecs_pulse(ecc') = 1 /\ hist'.edges = 2 /\ mac'.state # "RESET")
          => ecc'.ecc_address = ecc.ecc_address ]_vars

\* C13: the latched fault address is that of the most recent fault edge:
\* every fault edge, a second one before the address register has been read
\* included, sets it to rom_addr of that cycle, and nothing else changes it.
C13_MostRecentAddress ==
    [][ /\ ecs_pulse(ecc') = 1 => ecc'.ecc_address = mac'.rom_addr
        /\ ecs_pulse(ecc') = 0 => ecc'.ecc_address = ecc.ecc_address ]_vars

\* C13 witness: a second edge arrives in the middle of a later read and
\* latches the address pointer of that cycle
C13_Witness ==
    /\ ecs_pulse(ecc) = 1
    /\ hist.edges = 2
    /\ mac.state = "OPI_READ_32_DLO"
    /\ ecc.ecc_address = Rom(1025, 2)

\* C14 as the specification words it: a status-register read clears
\* overflow (unless the same cycle brings a fault edge that finds pending
\* set, which sets it anew).
C14_Original ==
    (csr_read = "ecc_status"
        /\ ~(ecs_pulse(ecc) = 1 /\ ecc.ecc_reported = 1))
      => ecc.ecc_overflow = 0

\* C15: an address-register read clears pending unless a fault edge falls
\* in the same cycle, and leaves overflow as it is; pending goes from 1 to 0
\* only by an address-register read (or reset), overflow from 1 to 0 only in
\* the cycle of a status-register read; every fault edge leaves pending set.
C15_Acknowledge ==
    [][ /\ (csr_read = "ecc_address" /\ ecs_pulse(ecc) = 0)
             => ecc'.ecc_reported = 0
        /\ (csr_read' = "ecc_address" /\ ecs_pulse(ecc') = 0)
             => ecc'.ecc_overflow = ecc.ecc_overflow
        /\ (ecc.ecc_reported = 1 /\ ecc'.ecc_reported = 0
              /\ mac'.state # "RESET")
             => csr_read = "ecc_address"
        /\ (ecc.ecc_overflow = 1 /\ ecc'.ecc_overflow = 0)
             => csr_read' = "ecc_status"
        /\ (ecs_pulse(ecc) = 1 /\ mac'.state # "RESET")
             => ecc'.ecc_reported = 1 ]_vars

\* C15 witness: after an address-register read pending is clear, overflow
\* is still set, and a new fault edge arrives
C15_Witness ==
    /\ ecc.ecc_reported = 0
    /\ ecc.ecc_overflow = 1
    /\ ecs_pulse(ecc) = 1
    /\ hist.edges = 1

\* C19 as the specification words it: from reset until the last command of
\* the boot wake-up has completed the mode is SPI (spi_mode = 1).
C19_Original ==
    (hist.first_read = 1
       /\ mac.state \in (WakeupStates \cup {"RESET"}) \ {"WAKEUP_CS_EXIT"})
      => mac.spi_mode = 1

C18_Original ==
    IsRead(bus) ~> (mac.bus_ack = 1 \/ mac.state = "RESET")

\* C16: whatever the lanes carry, a cycle in which the OPI PHY is in RX_PIPE
\* is followed by a cycle in which opi_ack is 1 and opi_di is the lane data
\* of the RX_PIPE cycle.
C16_RxLatency ==
    [][ (opiphy.state = "RX_PIPE" /\ mac'.state # "RESET")
            => opiphy'.opi_ack = 1 /\ opiphy'.opi_di = pins.di ]_vars

\* the second of two RX_PIPE cycles: 0xFFFF, sampled in the first, is
\* delivered with opi_ack while 0x0000 is on the lanes
C16_Witness ==
    /\ opiphy.state = "RX_PIPE" /\ opiphy.opi_ack = 1
    /\ opiphy.opi_di = 65535 /\ pins.di = 0
    /\ mac.state = "IDLE" /\ mac.bus_ack = 1

\* the byte a sequence of 8 bits spells, first bit most significant
ByteOf(q) ==
    128 * q[1] + 64 * q[2] + 32 * q[3] + 16 * q[4]
    + 8 * q[5] + 4 * q[6] + 2 * q[7] + q[8]

\* C17: spi_ack is 1 in exactly the cycles that follow the cycle of a
\* byte's 8th bit, in that cycle spi_di is the byte the 8 bits spell, and
\* once the PHY is back at rest it has given one acknowledgment for every
\* byte it took.
C17_SpiAck ==
    /\ spiphy.spi_ack = 1 <=> Len(hist.rx) = 8
    /\ spiphy.spi_ack = 1 => spiphy.spi_di = ByteOf(hist.rx)
    /\ hist.spi_acks <= Len(hist.spi_bytes)
    /\ (spiphy.state = "RESET" /\ spiphy.spi_ack_pipe = 0
            /\ spiphy.spi_ack = 0)
        => hist.spi_acks = Len(hist.spi_bytes)

\* the acknowledgment of the wake-up's second byte, with 0xA5 received
C17_Witness ==
    /\ spiphy.spi_ack = 1 /\ spiphy.spi_di = 165
    /\ hist.rx = <<1, 0, 1, 0, 0, 1, 0, 1>>
    /\ hist.spi_acks = 1 /\ Len(hist.spi_bytes) = 2

\* C21 as the specification words it: once software has set the rdid bit,
\* the MAC eventually serves it and clears the bit.
C21_Original ==
    (rdid(command) = 1) ~> (rdid(command) = 0)

C23_Original ==
    mac.state = "OPI_READ_32_D" => opiphy.state = "RX_PIPE"

\* C24 as the specification words it: in the cycle that acknowledges a read
\* of word address A, rom_addr is the byte address of word A + 1.
C24_Original ==
    (mac.bus_ack = 1 /\ IsRead(bus))
        => mac.rom_addr = Rom((bus.adr + 1) % AdrWords, 0)

\* C25 as the specification words it: in the states of a read in which the
\* MAC has a PHY cycle outstanding, a cycle without opi_ack leaves the MAC
\* where it is: same state, nothing shifted into the word buffer, the same
\* PHY requests, no bus acknowledgment.
C25_Original ==
    [][ (/\ mac.state \in {"OPI_READ_32_DUMMY", "OPI_READ_32_D",
                           "OPI_READ_32_DLO"}
         /\ opiphy.opi_ack = 0 /\ mac'.state # "RESET")
            => /\ mac'.state = mac.state
               /\ mac'.d_to_wb = mac.d_to_wb
               /\ mac'.opi_req_rx = mac.opi_req_rx
               /\ mac'.opi_req_tx = mac.opi_req_tx
               /\ mac'.bus_ack = 0 ]_vars

\* a byte of the wake-up is with the SPI PHY: requested, being shifted, or
\* shifted and not yet acknowledged
SpiCycleOpen ==
    \/ mac.spi_req = 1
    \/ spiphy.state # "RESET"
    \/ hist.spi_acks < Len(hist.spi_bytes)

\* a word of a read is with the OPI PHY: requested or in progress
OpiCycleOpen ==
    \/ mac.opi_req_tx = 1
    \/ mac.opi_req_rx = 1
    \/ opiphy.state # "IDLE"

WakeupCommands == {171, 6, 114}

\* C27: chip select has been high for at least 4 consecutive cycles before
\* it falls for a command of the wake-up (0xAB, each 0x06, each 0x72), and
\* for at least 1 cycle before it falls for a read command (0xEE11): when a
\* PHY takes the command, the high period that ended with the last falling
\* edge of cs_n was that long, and nothing was sent in between.
C27_CsHighTime ==
    /\ (SpiPhyLoads(spiphy, mac.spi_req) /\ mac.spi_do \in WakeupCommands)
           => hist.cs_gap >= 4
    /\ (OpiPhyLoads(opiphy, mac.opi_req_tx) /\ mac.opi_do = OpiReadCmd)
           => hist.cs_gap >= 1

\* a 0x72 goes out after a high time of five cycles
C27_Witness ==
    /\ SpiPhyLoads(spiphy, mac.spi_req) /\ mac.spi_do = 114
    /\ hist.cs_gap = 5
    /\ Len(hist.spi_bytes) > 3

\* a read command goes out after a high time of exactly one cycle
C27_WitnessRead ==
    /\ OpiPhyLoads(opiphy, mac.opi_req_tx) /\ mac.opi_do = OpiReadCmd
    /\ hist.cs_gap = 1

\* C28: every byte the SPI PHY takes goes out on mosi bit 7 first, bit 0
\* last, in 8 consecutive cycles with spi_clk_en = 1; the k-th input sample
\* is the miso of the cycle after the k-th output bit; and the byte returned
\* with spi_ack is those 8 samples, the first one in bit 7.
C28_BitOrder ==
    /\ Len(hist.tx) = 8
           => hist.tx = BitsOf(hist.spi_bytes[hist.spi_acks + 1])
    /\ (Len(hist.tx) \in 1..7) => spiphy.spi_clk_en = 1
    /\ hist.shift = 1 => Len(hist.rx) % 8 = Len(hist.tx) - 1
    /\ spiphy.spi_ack = 1
           => /\ Len(hist.rx) = 8
              /\ BitsOf(spiphy.spi_di) = hist.rx

\* 0x72 has gone out as 0,1,1,1,0,0,1,0 while 0xB2 came back as
\* 1,0,1,1,0,0,1 and its last bit is on miso
C28_Witness ==
    /\ hist.tx = <<0, 1, 1, 1, 0, 0, 1, 0>>
    /\ hist.spi_bytes[hist.spi_acks + 1] = 114
    /\ hist.rx = <<1, 0, 1, 1, 0, 0, 1>>
    /\ pins.miso = 0

\* C29: in a cycle in which the SPI PHY is in REQ with spicount > 0, the
\* PHY's next registers are the same for every value of spi_req, spi_do and
\* has_dummy: the count goes down by one, spi_so shifts by one bit, the PHY
\* stays in REQ and prepares no acknowledgment.
C29_ReqIgnored ==
    [][ (spiphy.state = "REQ" /\ spiphy.spicount > 0 /\ mac'.state # "RESET")
            => /\ \A r \in 0..1, d \in 0..255, hd \in 0..1 :
                      spiphy' = SpiPhyNext(spiphy, r, d, hd, config_dummy,
                                           pins.miso)
               /\ spiphy'.state = "REQ"
               /\ spiphy'.spicount = spiphy.spicount - 1
               /\ spiphy'.spi_so = ShiftOut(spiphy.spi_so)
               /\ spiphy'.spi_ack_pipe = 0 ]_vars

\* the MAC holds spi_req with the next byte, 0x00, on spi_do while the PHY
\* is in the middle of 0x72
C29_Witness ==
    /\ spiphy.state = "REQ" /\ spiphy.spicount = 3
    /\ hist.spi_bytes = <<171, 6, 114>>
    /\ hist.tx = <<0, 1, 1, 1>>
    /\ mac.spi_req = 1 /\ mac.spi_do = 0

\* C30: the OPI PHY reads config.dummy in the cycle in which it takes the
\* word that starts a dummy phase, and not again: in a DUMMY cycle its next
\* registers are the same for every value of config.dummy, the cycles
\* counted and the cycles left always add up to the value read at the start,
\* and the value read at the start of a phase is the register's value of
\* that cycle, whenever it was written.
C30_DummyReadOnce ==
    [][ mac'.state # "RESET"
            => /\ opiphy.state = "DUMMY"
                      => \A n \in 0..(CountMod - 1) :
                             opiphy' = OpiPhyNext(opiphy, mac.opi_req_tx,
                                                  mac.opi_req_rx,
                                                  mac.has_dummy, mac.opi_do,
                                                  n, pins.di)
               /\ opiphy'.state = "DUMMY"
                      => hist'.dummies + opiphy'.opicount
                             = Dec5(hist'.dummy_n)
               /\ (OpiPhyLoads(opiphy, mac.opi_req_tx) /\ mac.has_dummy = 1)
                      => /\ opiphy'.state = "DUMMY"
                         /\ opiphy'.opicount = Dec5(config_dummy)
                         /\ hist'.dummy_n = config_dummy ]_vars

\* software has written 1 to config.dummy in the middle of a dummy phase
\* that started with 10
C30_Witness ==
    /\ opiphy.state = "DUMMY" /\ hist.dummy_n = 10 /\ config_dummy = 1
    /\ hist.dummies = 7 /\ opiphy.opicount = 2

C32_Original ==
    [][ (opiphy.state = "DUMMY" /\ opiphy.opicount = 0
             /\ mac'.state # "RESET")
            => IF mac.opi_req_rx = 1
               THEN opiphy'.state = "RX_PIPE"
               ELSE /\ opiphy'.state # "RX_PIPE"
                    /\ opiphy'.opi_clk_en = 0
                    /\ opiphy'.opi_ack = 1 ]_vars

\* C33: with the clock running, the MAC leaves the reset for IDLE (the
\* wake-up of the power-up ends); every byte the SPI PHY has taken is
\* acknowledged; every word handed to the OPI PHY is acknowledged; and the
\* OPI PHY, once it has left IDLE for a dummy phase or a receive cycle, comes
\* back to IDLE with the acknowledgment raised.
C33_NoBlocking ==
    /\ (mac.state = "RESET") ~> (mac.state = "IDLE")
    /\ (hist.spi_acks < Len(hist.spi_bytes))
           ~> (hist.spi_acks = Len(hist.spi_bytes))
    /\ (mac.spi_req = 1) ~> (mac.spi_req = 0 /\ spiphy.state = "RESET")
    /\ (mac.opi_req_tx = 1) ~> (opiphy.opi_ack = 1)
    /\ (opiphy.state # "IDLE")
           ~> (opiphy.state = "IDLE" /\ opiphy.opi_ack = 1)
    /\ (mac.opi_req_rx = 1) ~> (opiphy.state = "RX_PIPE")

\* the wake-up is over, all of its fifteen bytes acknowledged, and a read
\* with a dummy phase of 32 cycles has been acknowledged by the PHY
C33_Witness ==
    /\ mac.state = "OPI_READ_32_D"
    /\ hist.spi_acks = 15 /\ Len(hist.spi_bytes) = 15
    /\ hist.dummy_n = 0 /\ hist.dummies = 32
    /\ opiphy.opi_ack = 1

\* C34: no fault edge is lost: a step in which the resynchronized strobe
\* falls is followed by a cycle with ecs_pulse, a cycle with ecs_pulse is
\* followed by a cycle with pending set whatever register software reads in
\* it, and pending is set in every cycle after an edge that no
\* address-register read has followed.
C34_EdgeLatched ==
    /\ [][ mac'.state # "RESET"
             => /\ (ecc.ecs_n = 1 /\ ecc'.ecs_n = 0) => ecs_pulse(ecc') = 1
                /\ \A rd \in CsrReads :
                       (ecs_pulse(ecc) = 1 /\ csr_read = rd)
                           => ecc'.ecc_reported = 1 ]_vars
    /\ []((hist.edges >= 1 /\ ecs_pulse(ecc) = 0) => ecc.ecc_reported = 1)

\* a fault edge in the cycle in which software reads the address register
\* of an earlier fault
C34_Witness ==
    /\ ecs_pulse(ecc) = 1
    /\ csr_read = "ecc_address"
    /\ ecc.ecc_reported = 1
    /\ ecc.ecc_overflow = 1

\* the two register writes of the wake-up: command 0x72, four address
\* bytes, one data byte
Cr2Dummy == <<114, 0, 0, 3, 0, 5>>

Cr2Dopi == <<114, 0, 0, 0, 0, 2>>

\* C35: the bytes the SPI PHY takes while chip select is low are always the
\* beginning of 0xAB, of 0x06 or of one of the two six-byte register writes,
\* and when chip select rises after a 0x72 the PHY has taken exactly the six
\* bytes of one of the two writes and has acknowledged them all.
C35_Cr2Window ==
    /\ [](\/ IsPrefix(hist.cs_bytes, <<171>>)
          \/ IsPrefix(hist.cs_bytes, <<6>>)
          \/ IsPrefix(hist.cs_bytes, Cr2Dummy)
          \/ IsPrefix(hist.cs_bytes, Cr2Dopi))
    /\ [][ (/\ mac.cs_n = 0 /\ mac'.cs_n = 1 /\ mac'.state # "RESET"
            /\ hist.cs_bytes # <<>> /\ hist.cs_bytes[1] = 114)
             => /\ hist.cs_bytes \in {Cr2Dummy, Cr2Dopi}
                /\ hist'.cs_bytes = hist.cs_bytes
                /\ hist'.spi_acks = Len(hist'.spi_bytes) ]_vars

\* chip select has just risen after the DOPI enable of a wake-up that
\* software started
C35_Witness ==
    /\ mac.cs_n = 1 /\ hist.cs_bytes = Cr2Dopi
    /\ hist.spi_bytes = WakeupBytes /\ hist.spi_acks = 15
    /\ hist.first_read = 0

\* C36 as the specification words it: whenever the MAC asserts spi_req,
\* opi_req_tx or opi_req_rx, chip select is asserted (cs_n = 0).
C36_Original ==
    (mac.spi_req = 1 \/ mac.opi_req_tx = 1 \/ mac.opi_req_rx = 1)
        => mac.cs_n = 0

\* C37 as the specification words it: bus.ack is asserted only in a cycle
\* in which a read request (cyc and stb, not we) is on the bus.
C37_Original ==
    mac.bus_ack = 1 => IsRead(bus)

\* the states of the SPI read machine
SpiReadStates ==
    { "SPI_READ_32", "SPI_READ_32_D", "SPI_READ_32_CS", "SPI_READ_32_A0",
      "SPI_READ_32_A1", "SPI_READ_32_A2", "SPI_READ_32_A3", "SPI_READ_32_A4",
      "SPI_READ_32_A5", "SPI_READ_32_DUMMY" }

\* C38: the mode is OPI whenever the MAC is in IDLE; the MAC is never in a
\* state of the SPI read machine; and the SPI fast-read command 0x0C is
\* never put on spi_do with a request nor taken by the SPI PHY.
C38_NoSpiRead ==
    /\ mac.state = "IDLE" => mac.spi_mode = 0
    /\ mac.state \notin SpiReadStates
    /\ ~(mac.spi_req = 1 /\ mac.spi_do = 12)
    /\ \A i \in 1..Len(hist.spi_bytes) : hist.spi_bytes[i] # 12

\* IDLE with a read on the bus, after a wake-up that software started
C38_Witness ==
    /\ mac.state = "IDLE" /\ mac.spi_mode = 0
    /\ ReadRequested(bus)
    /\ hist.first_read = 0 /\ hist.spi_bytes = WakeupBytes

\* C39: in every state at most one of the three PHY requests spi_req,
\* opi_req_tx and opi_req_rx is asserted: the wake-up sequence uses only
\* spi_req and has dropped it before the read machine starts, and the read
\* machine drops opi_req_tx one state before it raises opi_req_rx.
C39_OneRequest ==
    /\ mac.spi_req + mac.opi_req_tx + mac.opi_req_rx <= 1
    /\ mac.spi_req = 1 => mac.state \in WakeupStates
    /\ mac.opi_req_tx = 1 =>
          mac.state \in {"OPI_READ_32_A1", "OPI_READ_32_A2",
                         "OPI_READ_32_ACKWAIT"}

\* the read machine has handed over from transmit to receive: the command
\* and address went out under opi_req_tx and opi_req_rx is now the only
\* request
C39_Witness ==
    /\ mac.state = "OPI_READ_32_D"
    /\ mac.opi_req_rx = 1
    /\ mac.opi_req_tx = 0
    /\ mac.spi_req = 0
    /\ hist.opi_words # <<>>

\* C40 as the specification words it: a write on the bus (cyc and stb with
\* we = 1) is never acknowledged: bus.ack is low in every cycle in which a
\* write is on the bus.
C40_Original ==
    (bus.cyc = 1 /\ bus.stb = 1 /\ bus.we = 1) => mac.bus_ack = 0

=============================================================================
